---- MODULE Spec2Model ----
(***************************************************************************)
(* Model of the pass/fail decision of the people-detection test scripts    *)
(* (People_Tests/tests/*.py with test_utils.calculate_metrics and          *)
(* create_json_output) and of the greedy IoU matcher of the demo suites    *)
(* (demo_all_tests.py, Signs_Tests/demo_ai_tests.py).                      *)
(*                                                                         *)
(* Numbers.  detection_rate is the Python float (d / e) * 100.  It is kept *)
(* as the exact fraction [num, den]; for the thresholds used here          *)
(* (60, 85, 95, 100) and every count below 200 the float comparison        *)
(* `rate < threshold` agrees with the exact one.  int(e * 0.2) equals the  *)
(* truncated quotient e / 5 for every count below 100000.  Box coordinates *)
(* are multiples of 1/4, so every                                          *)
(* product and sum of calculate_iou is exact in floating point and the     *)
(* final correctly rounded division maps equal fractions to equal floats   *)
(* and preserves order; an IoU is kept as a fraction in lowest terms.      *)
(* avg_iou is kept exact; the float sum may differ from it by one ulp.      *)
(***************************************************************************)
EXTENDS Integers, Sequences, FiniteSets, TLC

\* ------------------------------------------------------------------ bounds
MaxPeople == 23
MaxDetected == 27

\* --------------------------------------------------------------- constants
Categories == {"individual", "small", "medium", "large", "crowd"}
CategoryInputs == Categories \cup {"huge"}
Thresholds == {60, 85, 95, 100}
None == [none |-> TRUE]
NoRate == [num |-> 0, den |-> 1]

Abs(x) == IF x < 0 THEN -x ELSE x
Max(a, b) == IF a > b THEN a ELSE b
Min(a, b) == IF a < b THEN a ELSE b

\* int(x * 0.2): Python's int() truncates toward zero
IntOfFifth(x) == IF x >= 0 THEN x \div 5 ELSE -((-x) \div 5)

\* rate < threshold, rate >= threshold on the fraction num/den (den > 0)
RateBelow(rate, threshold) == rate.num < threshold * rate.den

get_group_size_category_20_is_crowd(people_count) ==
    IF people_count <= 1 THEN "individual"
    ELSE IF 2 <= people_count /\ people_count <= 5 THEN "small"
    ELSE IF 6 <= people_count /\ people_count <= 10 THEN "medium"
    ELSE IF 11 <= people_count /\ people_count < 20 THEN "large"
    ELSE "crowd"

get_group_size_category(people_count) ==
    IF people_count <= 1 THEN "individual"
    ELSE IF 2 <= people_count /\ people_count <= 5 THEN "small"
    ELSE IF 6 <= people_count /\ people_count <= 10 THEN "medium"
    ELSE IF 11 <= people_count /\ people_count <= 20 THEN "large"
    ELSE "crowd"

tolerance_map_large_tenth(actual_people) ==
    [small |-> 1, medium |-> 2, large |-> actual_people \div 10]

\* the dict lookup tolerance_map.get(group_size_category, 1)
tolerance_map(actual_people) ==
    [small |-> 1, medium |-> 2, large |-> IntOfFifth(actual_people)]

tolerance_map_get_rounding(actual_people, group_size_category) ==
    IF group_size_category = "small" THEN 1
    ELSE IF group_size_category = "medium" THEN 2
    ELSE IF group_size_category = "large" THEN (2 * actual_people + 5) \div 10
    ELSE 1

tolerance_map_get(actual_people, group_size_category) ==
    IF group_size_category \in DOMAIN tolerance_map(actual_people)
    THEN tolerance_map(actual_people)[group_size_category]
    ELSE 1

count_within_strict(count_error, count_tolerance) == count_error < count_tolerance

count_within_inverted(count_error, count_tolerance) == count_error >= count_tolerance

count_within(count_error, count_tolerance) == count_error <= count_tolerance

calculate_metrics_unguarded_rate(actual_people, detected_people, group_size_category) ==
    LET detection_rate ==
            [num |-> detected_people * 100, den |-> actual_people]
        count_tolerance == tolerance_map_get(actual_people, group_size_category)
        count_error == Abs(detected_people - actual_people)
    IN  [detection_rate |-> detection_rate,
         count_tolerance |-> count_tolerance,
         count_error |-> count_error,
         count_within_tolerance |-> count_within(count_error, count_tolerance),
         false_positives |-> Max(0, detected_people - actual_people),
         false_negatives |-> Max(0, actual_people - detected_people)]

calculate_metrics(actual_people, detected_people, group_size_category) ==
    LET detection_rate ==
            IF actual_people > 0
            THEN [num |-> detected_people * 100, den |-> actual_people]
            ELSE NoRate
        count_tolerance == tolerance_map_get(actual_people, group_size_category)
        count_error == Abs(detected_people - actual_people)
    IN  [detection_rate |-> detection_rate,
         count_tolerance |-> count_tolerance,
         count_error |-> count_error,
         count_within_tolerance |-> count_within(count_error, count_tolerance),
         false_positives |-> Max(0, detected_people - actual_people),
         false_negatives |-> Max(0, actual_people - detected_people)]

\* the f-strings appended to failure_reasons, by template and interpolated values
RateReason(m, threshold) ==
    [kind |-> "detection_rate_below_threshold", a |-> m.detection_rate.num,
     b |-> m.detection_rate.den, c |-> threshold]
CountReason(m) ==
    [kind |-> "count_error_exceeds_tolerance", a |-> m.count_error,
     b |-> m.count_tolerance, c |-> 0]
FalsePositiveReason(detected_people) ==
    [kind |-> "false_positive", a |-> 0, b |-> detected_people, c |-> 0]

\* the two checks shared by every script
two_checks_elif(m, detection_threshold) ==
    LET rate_fail == RateBelow(m.detection_rate, detection_threshold)
        count_fail == ~rate_fail /\ ~m.count_within_tolerance
    IN  [test_passed |-> ~(rate_fail \/ count_fail),
         failure_reasons |->
            (IF rate_fail THEN <<RateReason(m, detection_threshold)>> ELSE <<>>)
            \o (IF count_fail THEN <<CountReason(m)>> ELSE <<>>)]

two_checks(m, detection_threshold) ==
    LET rate_fail == RateBelow(m.detection_rate, detection_threshold)
        count_fail == ~m.count_within_tolerance
    IN  [test_passed |-> ~(rate_fail \/ count_fail),
         failure_reasons |->
            (IF rate_fail THEN <<RateReason(m, detection_threshold)>> ELSE <<>>)
            \o (IF count_fail THEN <<CountReason(m)>> ELSE <<>>)]

\* "Determine pass/fail" of the decision-table scripts (DT-001, DT-002, DT-006)
dt_verdict_no_zero_branch(m, actual_people, detected_people, detection_threshold) ==
    two_checks(m, detection_threshold)

dt_verdict(m, actual_people, detected_people, detection_threshold) ==
    IF actual_people = 0
    THEN IF detected_people > 0
         THEN [test_passed |-> FALSE,
               failure_reasons |-> <<FalsePositiveReason(detected_people)>>]
         ELSE [test_passed |-> TRUE, failure_reasons |-> <<>>]
    ELSE two_checks(m, detection_threshold)

\* "Determine pass/fail" of the BVA/EP scripts (EP-004, EP-010, BVA-012, ...)
ep_verdict(m, detection_threshold) == two_checks(m, detection_threshold)

\* test_result section of create_json_output
create_json_output(passed, reasons) ==
    [status |-> IF passed THEN "PASS" ELSE "FAIL",
     meets_functional_requirements |-> passed,
     failure_reasons |-> IF ~passed THEN reasons ELSE <<>>]

\* --------------------------------------------------------------- fractions
RECURSIVE GCD(_, _)
GCD(a, b) == IF b = 0 THEN a ELSE GCD(b, a % b)

\* the float n / d (n >= 0, d > 0) as a fraction in lowest terms
Frac(n, d) == LET g == GCD(n, d) IN [num |-> n \div g, den |-> d \div g]
Zero == [num |-> 0, den |-> 1]
One == [num |-> 1, den |-> 1]

\* the outcome of n / 0: Python raises ZeroDivisionError instead of a value
ZeroDivisionError == [num |-> 0, den |-> 0]
FloatDiv(n, d) == IF d = 0 THEN ZeroDivisionError ELSE Frac(n, d)
FracLess(p, q) == p.num * q.den < q.num * p.den
FracGeq(p, q) == p.num * q.den >= q.num * p.den
FracAdd(p, q) == Frac(p.num * q.den + q.num * p.den, p.den * q.den)
FracDivInt(p, n) == Frac(p.num, p.den * n)

RECURSIVE FracSum(_)
FracSum(s) == IF s = <<>> THEN Zero ELSE FracAdd(Head(s), FracSum(Tail(s)))

Range(s) == {s[k] : k \in DOMAIN s}

SetMin(S) == CHOOSE m \in S : \A x \in S : m <= x
SetMax(S) == CHOOSE m \in S : \A x \in S : m >= x

\* ----------------------------------------------------------------- matcher
NoneId == 0

calculate_iou_over_box1(box1, box2) ==
    LET x_left == Max(box1.x_min, box2.x_min)
        y_top == Max(box1.y_min, box2.y_min)
        x_right == Min(box1.x_max, box2.x_max)
        y_bottom == Min(box1.y_max, box2.y_max)
        intersection_area == (x_right - x_left) * (y_bottom - y_top)
        box1_area == (box1.x_max - box1.x_min) * (box1.y_max - box1.y_min)
        box2_area == (box2.x_max - box2.x_min) * (box2.y_max - box2.y_min)
        union_area == box1_area + box2_area - intersection_area
    IN  IF x_right < x_left \/ y_bottom < y_top THEN Zero
        ELSE IF box1_area = 0 THEN Zero
        ELSE FloatDiv(intersection_area, box1_area)

calculate_iou_union_sum(box1, box2) ==
    LET x_left == Max(box1.x_min, box2.x_min)
        y_top == Max(box1.y_min, box2.y_min)
        x_right == Min(box1.x_max, box2.x_max)
        y_bottom == Min(box1.y_max, box2.y_max)
        intersection_area == (x_right - x_left) * (y_bottom - y_top)
        box1_area == (box1.x_max - box1.x_min) * (box1.y_max - box1.y_min)
        box2_area == (box2.x_max - box2.x_min) * (box2.y_max - box2.y_min)
        union_area == box1_area + box2_area
    IN  IF x_right < x_left \/ y_bottom < y_top THEN Zero
        ELSE IF union_area = 0 THEN Zero
        ELSE FloatDiv(intersection_area, union_area)

calculate_iou_degenerate_one(box1, box2) ==
    LET x_left == Max(box1.x_min, box2.x_min)
        y_top == Max(box1.y_min, box2.y_min)
        x_right == Min(box1.x_max, box2.x_max)
        y_bottom == Min(box1.y_max, box2.y_max)
        intersection_area == (x_right - x_left) * (y_bottom - y_top)
        box1_area == (box1.x_max - box1.x_min) * (box1.y_max - box1.y_min)
        box2_area == (box2.x_max - box2.x_min) * (box2.y_max - box2.y_min)
        union_area == box1_area + box2_area - intersection_area
    IN  IF x_right < x_left \/ y_bottom < y_top THEN Zero
        ELSE IF union_area = 0 THEN One
        ELSE FloatDiv(intersection_area, union_area)

calculate_iou(box1, box2) ==
    LET x_left == Max(box1.x_min, box2.x_min)
        y_top == Max(box1.y_min, box2.y_min)
        x_right == Min(box1.x_max, box2.x_max)
        y_bottom == Min(box1.y_max, box2.y_max)
        intersection_area == (x_right - x_left) * (y_bottom - y_top)
        box1_area == (box1.x_max - box1.x_min) * (box1.y_max - box1.y_min)
        box2_area == (box2.x_max - box2.x_min) * (box2.y_max - box2.y_min)
        union_area == box1_area + box2_area - intersection_area
    IN  IF x_right < x_left \/ y_bottom < y_top THEN Zero
        ELSE IF union_area = 0 THEN Zero
        ELSE FloatDiv(intersection_area, union_area)

convert_detected_to_box(detected_obj) ==
    LET vertices == detected_obj.normalized_vertices
        x_coords == {vertices[k].x : k \in DOMAIN vertices}
        y_coords == {vertices[k].y : k \in DOMAIN vertices}
    IN  [x_min |-> SetMin(x_coords), y_min |-> SetMin(y_coords),
         x_max |-> SetMax(x_coords), y_max |-> SetMax(y_coords)]

\* the inner loop over detected_boxes, j counted from 0 as in the code
RECURSIVE scan_detected(_, _, _, _, _)
scan_detected(box, detected_boxes, used_detected, j, best) ==
    IF j >= Len(detected_boxes) THEN best
    ELSE IF j \in used_detected
         THEN scan_detected(box, detected_boxes, used_detected, j + 1, best)
         ELSE LET iou == calculate_iou(box, detected_boxes[j + 1])
              IN  IF FracLess(best.best_iou, iou)
                  THEN scan_detected(box, detected_boxes, used_detected, j + 1,
                                     [best_iou |-> iou, best_idx |-> j])
                  ELSE scan_detected(box, detected_boxes, used_detected, j + 1, best)

RECURSIVE scan_detected_geq(_, _, _, _, _)
scan_detected_geq(box, detected_boxes, used_detected, j, best) ==
    IF j >= Len(detected_boxes) THEN best
    ELSE IF j \in used_detected
         THEN scan_detected_geq(box, detected_boxes, used_detected, j + 1, best)
         ELSE LET iou == calculate_iou(box, detected_boxes[j + 1])
              IN  IF FracGeq(iou, best.best_iou)
                  THEN scan_detected_geq(box, detected_boxes, used_detected, j + 1,
                                         [best_iou |-> iou, best_idx |-> j])
                  ELSE scan_detected_geq(box, detected_boxes, used_detected, j + 1, best)

find_best_geq(box, detected_boxes, used_detected) ==
    scan_detected_geq(box, detected_boxes, used_detected, 0,
                      [best_iou |-> Zero, best_idx |-> -1])

find_best_ignore_used(box, detected_boxes, used_detected) ==
    scan_detected(box, detected_boxes, {}, 0,
                  [best_iou |-> Zero, best_idx |-> -1])

find_best_last_tie(box, detected_boxes, used_detected) ==
    LET best == scan_detected_geq(box, detected_boxes, used_detected, 0,
                                  [best_iou |-> Zero, best_idx |-> -1])
    IN  IF best.best_iou = Zero THEN [best_iou |-> Zero, best_idx |-> -1]
        ELSE best

\* best_iou = 0.0, best_idx = -1 and the inner loop
find_best(box, detected_boxes, used_detected) ==
    scan_detected(box, detected_boxes, used_detected, 0,
                  [best_iou |-> Zero, best_idx |-> -1])

RECURSIVE match_loop_unmatched_zero(_, _, _, _, _)
match_loop_unmatched_zero(expected_boxes, detected_boxes, iou_thr, i, st) ==
    IF i >= Len(expected_boxes) THEN st
    ELSE LET best == find_best(expected_boxes[i + 1].bounding_box,
                               detected_boxes, st.used_detected)
         IN  IF best.best_idx >= 0 /\ FracGeq(best.best_iou, iou_thr)
             THEN match_loop_unmatched_zero(expected_boxes, detected_boxes, iou_thr, i + 1,
                    [used_detected |-> st.used_detected \cup {best.best_idx},
                     matched_ious |-> Append(st.matched_ious, best.best_iou),
                     details |-> Append(st.details,
                        [expected_id |-> i + 1, detected_id |-> best.best_idx + 1,
                         iou |-> best.best_iou, matched |-> TRUE])])
             ELSE match_loop_unmatched_zero(expected_boxes, detected_boxes, iou_thr, i + 1,
                    [used_detected |-> st.used_detected,
                     matched_ious |-> st.matched_ious,
                     details |-> Append(st.details,
                        [expected_id |-> i + 1, detected_id |-> NoneId,
                         iou |-> Zero, matched |-> FALSE])])

RECURSIVE match_loop_no_mark(_, _, _, _, _)
match_loop_no_mark(expected_boxes, detected_boxes, iou_thr, i, st) ==
    IF i >= Len(expected_boxes) THEN st
    ELSE LET best == find_best(expected_boxes[i + 1].bounding_box,
                               detected_boxes, st.used_detected)
         IN  IF best.best_idx >= 0 /\ FracGeq(best.best_iou, iou_thr)
             THEN match_loop_no_mark(expected_boxes, detected_boxes, iou_thr, i + 1,
                    [used_detected |-> st.used_detected,
                     matched_ious |-> Append(st.matched_ious, best.best_iou),
                     details |-> Append(st.details,
                        [expected_id |-> i + 1, detected_id |-> best.best_idx + 1,
                         iou |-> best.best_iou, matched |-> TRUE])])
             ELSE match_loop_no_mark(expected_boxes, detected_boxes, iou_thr, i + 1,
                    [used_detected |-> st.used_detected,
                     matched_ious |-> st.matched_ious,
                     details |-> Append(st.details,
                        [expected_id |-> i + 1, detected_id |-> NoneId,
                         iou |-> best.best_iou, matched |-> FALSE])])

RECURSIVE match_loop_no_threshold(_, _, _, _, _)
match_loop_no_threshold(expected_boxes, detected_boxes, iou_thr, i, st) ==
    IF i >= Len(expected_boxes) THEN st
    ELSE LET best == find_best(expected_boxes[i + 1].bounding_box,
                               detected_boxes, st.used_detected)
         IN  IF best.best_idx >= 0
             THEN match_loop_no_threshold(expected_boxes, detected_boxes, iou_thr, i + 1,
                    [used_detected |-> st.used_detected \cup {best.best_idx},
                     matched_ious |-> Append(st.matched_ious, best.best_iou),
                     details |-> Append(st.details,
                        [expected_id |-> i + 1, detected_id |-> best.best_idx + 1,
                         iou |-> best.best_iou, matched |-> TRUE])])
             ELSE match_loop_no_threshold(expected_boxes, detected_boxes, iou_thr, i + 1,
                    [used_detected |-> st.used_detected,
                     matched_ious |-> st.matched_ious,
                     details |-> Append(st.details,
                        [expected_id |-> i + 1, detected_id |-> NoneId,
                         iou |-> best.best_iou, matched |-> FALSE])])

\* the outer loop over expected_boxes, i counted from 0 as in the code
RECURSIVE match_loop(_, _, _, _, _)
match_loop(expected_boxes, detected_boxes, iou_thr, i, st) ==
    IF i >= Len(expected_boxes) THEN st
    ELSE LET best == find_best(expected_boxes[i + 1].bounding_box,
                               detected_boxes, st.used_detected)
         IN  IF best.best_idx >= 0 /\ FracGeq(best.best_iou, iou_thr)
             THEN match_loop(expected_boxes, detected_boxes, iou_thr, i + 1,
                    [used_detected |-> st.used_detected \cup {best.best_idx},
                     matched_ious |-> Append(st.matched_ious, best.best_iou),
                     details |-> Append(st.details,
                        [expected_id |-> i + 1, detected_id |-> best.best_idx + 1,
                         iou |-> best.best_iou, matched |-> TRUE])])
             ELSE match_loop(expected_boxes, detected_boxes, iou_thr, i + 1,
                    [used_detected |-> st.used_detected,
                     matched_ious |-> st.matched_ious,
                     details |-> Append(st.details,
                        [expected_id |-> i + 1, detected_id |-> NoneId,
                         iou |-> best.best_iou, matched |-> FALSE])])

calculate_localization_score_empty_zero(expected_boxes, detected_objects, iou_thr) ==
    IF expected_boxes = <<>> \/ detected_objects = <<>>
    THEN IF expected_boxes = <<>> /\ detected_objects = <<>>
         THEN [matched_count |-> 0, avg_iou |-> Zero, details |-> <<>>]
         ELSE [matched_count |-> 0, avg_iou |-> Zero, details |-> <<>>]
    ELSE LET detected_boxes ==
                 [k \in 1 .. Len(detected_objects) |->
                     convert_detected_to_box(detected_objects[k])]
             st == match_loop(expected_boxes, detected_boxes, iou_thr, 0,
                       [used_detected |-> {}, matched_ious |-> <<>>,
                        details |-> <<>>])
         IN  [matched_count |-> Len(st.matched_ious),
              avg_iou |-> IF st.matched_ious # <<>>
                          THEN FracDivInt(FracSum(st.matched_ious),
                                          Len(st.matched_ious))
                          ELSE Zero,
              details |-> st.details]

calculate_localization_score_avg_over_expected(expected_boxes, detected_objects, iou_thr) ==
    IF expected_boxes = <<>> \/ detected_objects = <<>>
    THEN IF expected_boxes = <<>> /\ detected_objects = <<>>
         THEN [matched_count |-> 0, avg_iou |-> One, details |-> <<>>]
         ELSE [matched_count |-> 0, avg_iou |-> Zero, details |-> <<>>]
    ELSE LET detected_boxes ==
                 [k \in 1 .. Len(detected_objects) |->
                     convert_detected_to_box(detected_objects[k])]
             st == match_loop(expected_boxes, detected_boxes, iou_thr, 0,
                       [used_detected |-> {}, matched_ious |-> <<>>,
                        details |-> <<>>])
         IN  [matched_count |-> Len(st.matched_ious),
              avg_iou |-> IF st.matched_ious # <<>>
                          THEN FracDivInt(FracSum(st.matched_ious),
                                          Len(expected_boxes))
                          ELSE Zero,
              details |-> st.details]

calculate_localization_score_count_details(expected_boxes, detected_objects, iou_thr) ==
    IF expected_boxes = <<>> \/ detected_objects = <<>>
    THEN IF expected_boxes = <<>> /\ detected_objects = <<>>
         THEN [matched_count |-> 0, avg_iou |-> One, details |-> <<>>]
         ELSE [matched_count |-> 0, avg_iou |-> Zero, details |-> <<>>]
    ELSE LET detected_boxes ==
                 [k \in 1 .. Len(detected_objects) |->
                     convert_detected_to_box(detected_objects[k])]
             st == match_loop(expected_boxes, detected_boxes, iou_thr, 0,
                       [used_detected |-> {}, matched_ious |-> <<>>,
                        details |-> <<>>])
         IN  [matched_count |-> Len(st.details),
              avg_iou |-> IF st.matched_ious # <<>>
                          THEN FracDivInt(FracSum(st.matched_ious),
                                          Len(st.matched_ious))
                          ELSE Zero,
              details |-> st.details]

calculate_localization_score(expected_boxes, detected_objects, iou_thr) ==
    IF expected_boxes = <<>> \/ detected_objects = <<>>
    THEN IF expected_boxes = <<>> /\ detected_objects = <<>>
         THEN [matched_count |-> 0, avg_iou |-> One, details |-> <<>>]
         ELSE [matched_count |-> 0, avg_iou |-> Zero, details |-> <<>>]
    ELSE LET detected_boxes ==
                 [k \in 1 .. Len(detected_objects) |->
                     convert_detected_to_box(detected_objects[k])]
             st == match_loop(expected_boxes, detected_boxes, iou_thr, 0,
                       [used_detected |-> {}, matched_ious |-> <<>>,
                        details |-> <<>>])
         IN  [matched_count |-> Len(st.matched_ious),
              avg_iou |-> IF st.matched_ious # <<>>
                          THEN FracDivInt(FracSum(st.matched_ious),
                                          Len(st.matched_ious))
                          ELSE Zero,
              details |-> st.details]

\* ------------------------------------------------------ inputs of the matcher
MaxExpectedBoxes == 2
MaxDetectedBoxes == 2

Box(x0, y0, x1, y1) == [x_min |-> x0, y_min |-> y0, x_max |-> x1, y_max |-> y1]

\* rectangles in units of a quarter of the image side
MatchBoxes ==
    {Box(0, 0, 2, 2), Box(1, 0, 3, 2), Box(0, 0, 4, 2), Box(0, 0, 3, 2),
     Box(2, 2, 4, 4), Box(1, 1, 1, 1)}

\* the four normalized vertices the detector reports for a rectangle
QuadOf(b) ==
    [normalized_vertices |->
        <<[x |-> b.x_min, y |-> b.y_min], [x |-> b.x_max, y |-> b.y_min],
          [x |-> b.x_max, y |-> b.y_max], [x |-> b.x_min, y |-> b.y_max]>>]

\* a quadrilateral that is not axis-aligned
Diamond ==
    [normalized_vertices |->
        <<[x |-> 2, y |-> 0], [x |-> 4, y |-> 2],
          [x |-> 2, y |-> 4], [x |-> 0, y |-> 2]>>]

ExpectedPool == {[bounding_box |-> b] : b \in MatchBoxes}
DetectedPool == {QuadOf(b) : b \in MatchBoxes} \cup {Diamond}
IoUThresholds == {Zero, [num |-> 3, den |-> 10], [num |-> 1, den |-> 2], One}

SeqsUpTo(S, n) == UNION {[1 .. k -> S] : k \in 0 .. n}

\* every axis-aligned rectangle with corners on the quarter-unit grid
GridMax == 3
GridBoxes ==
    {Box(x0, y0, x1, y1) : x0 \in 0 .. GridMax, y0 \in 0 .. GridMax,
                           x1 \in 0 .. GridMax, y1 \in 0 .. GridMax}
Rectangles == {b \in GridBoxes : b.x_min <= b.x_max /\ b.y_min <= b.y_max}


\* ------------------------------------------------- decision-table scripts
\* image_extensions of find_image_path, in the order they are tried
image_extensions == <<".jpg", ".jpeg", ".png", ".gif", ".bmp">>

\* find_image_path(base_path, test_id): existing is the set of extensions
\* for which base_path/test_id + ext exists; the path is named by its extension
RECURSIVE find_image_path_from(_, _)
find_image_path_from(existing, k) ==
    IF k > Len(image_extensions) THEN None
    ELSE IF image_extensions[k] \in existing
         THEN [ext |-> image_extensions[k]]
         ELSE find_image_path_from(existing, k + 1)

find_image_path(existing) == find_image_path_from(existing, 1)

\* the "Test configuration" block of DT-001, DT-002 and DT-006
DTScripts == {"DT-001", "DT-002", "DT-006"}

DTConfig(test_id) ==
    IF test_id = "DT-001"
    THEN [actual_people |-> 1, detection_threshold |-> 85,
          group_size_category |-> "small"]
    ELSE IF test_id = "DT-002"
    THEN [actual_people |-> 2, detection_threshold |-> 85,
          group_size_category |-> "small"]
    ELSE [actual_people |-> 22, detection_threshold |-> 85,
          group_size_category |-> "crowd"]

\* test_dt_NNN(): existing_at_find is the images directory as seen by
\* find_image_path, existing_at_check the directory as seen by the later
\* os.path.exists(actual_image_path), detected the number of people the
\* detection API reports.  os.path.exists(None) raises TypeError.
test_dt_script(test_id, existing_at_find, existing_at_check, detected) ==
    LET cfg == DTConfig(test_id)
        actual_image_path == find_image_path(existing_at_find)
    IN  IF actual_image_path = None
        THEN [raised |-> "TypeError", actual_image_path |-> None,
              stdout |-> "", saved_json |-> None, api_called |-> FALSE]
        ELSE IF actual_image_path.ext \notin existing_at_check
        THEN [raised |-> "none", actual_image_path |-> actual_image_path,
              stdout |-> "FAIL",
              saved_json |-> [test_id |-> test_id, status |-> "ERROR",
                              error |-> "Error: Image file not found"],
              api_called |-> FALSE]
        ELSE LET m == calculate_metrics(cfg.actual_people, detected,
                                        cfg.group_size_category)
                 v == dt_verdict(m, cfg.actual_people, detected,
                                 cfg.detection_threshold)
             IN  [raised |-> "none", actual_image_path |-> actual_image_path,
                  stdout |-> IF v.test_passed THEN "PASS" ELSE "FAIL",
                  saved_json |->
                      [test_case_id |-> test_id,
                       detected_people |-> detected,
                       test_result |-> create_json_output(v.test_passed,
                                                          v.failure_reasons)],
                  api_called |-> TRUE]

\* ---------------------------------------------------------- report generator
\* round(x, 2) of a non-negative x = num/den, to the nearest hundredth
Round2(x) == Frac((200 * x.num + x.den) \div (2 * x.den), 100)

\* a test id by its prefix and number, e.g. DT-002
TestId(prefix, number) == [prefix |-> prefix, number |-> number]

\* the parts of a script's JSON output file that the report reads:
\* create_json_output for a test with ground truth e, d detected people and
\* category c; condition is the class calculate_detection_by_condition
\* derives from the words of test_name and description
ResultJson(test_id, e, d, c, t, condition) ==
    LET m == calculate_metrics(e, d, c)
        v == IF test_id.prefix = "DT-" THEN dt_verdict(m, e, d, t)
             ELSE ep_verdict(m, t)
    IN  [test_id |-> test_id,
         has_actual_results |-> TRUE,
         expected_people_count |-> e,
         actual_people_in_scene |-> e,
         detected_people |-> d,
         detection_rate |-> Round2(m.detection_rate),
         false_positives |-> m.false_positives,
         false_negatives |-> m.false_negatives,
         status |-> create_json_output(v.test_passed, v.failure_reasons).status,
         failure_reasons |->
             create_json_output(v.test_passed, v.failure_reasons).failure_reasons,
         condition |-> condition]

\* the error record of a decision-table script as the report reads it: every
\* data.get(...) falls back to its default
ErrorJson(test_id) ==
    [test_id |-> test_id,
     has_actual_results |-> FALSE,
     expected_people_count |-> 0,
     actual_people_in_scene |-> 0,
     detected_people |-> 0,
     detection_rate |-> Zero,
     false_positives |-> 0,
     false_negatives |-> 0,
     status |-> "ERROR",
     failure_reasons |-> <<>>,
     condition |-> "challenging"]

\* a or b of Python on two integers
IntOr(a, b) == IF a # 0 THEN a ELSE b

\* the severity analyze_bugs gives a failed test
bug_severity(test_id, data) ==
    LET expected_people == IntOr(data.expected_people_count,
                                 data.actual_people_in_scene)
        detected_people == data.detected_people
        first == IF test_id.prefix = "DT-" /\ expected_people > 0
                    /\ detected_people = 0
                 THEN "Critical"
                 ELSE IF RateBelow(data.detection_rate, 70) THEN "Major"
                 ELSE IF RateBelow(data.detection_rate, 85) THEN "Minor"
                 ELSE "Minor"
        count_error == Abs(expected_people - detected_people)
    IN  IF expected_people > 0
        THEN \* error_pct = count_error / expected_people * 100
             IF count_error * 100 > 50 * expected_people THEN "Major"
             ELSE IF count_error * 100 > 30 * expected_people /\ first = "Minor"
             THEN "Major"
             ELSE first
        ELSE first

\* analyze_bugs over json_results in dict order, bug_id counted from 1
RECURSIVE analyze_bugs_from(_, _, _)
analyze_bugs_from(results, k, found) ==
    IF k > Len(results) THEN found
    ELSE IF results[k].status = "FAIL"
         THEN analyze_bugs_from(results, k + 1,
                  Append(found,
                      [id |-> Len(found) + 1,
                       test_case |-> results[k].test_id,
                       severity |-> bug_severity(results[k].test_id, results[k]),
                       description |-> results[k].failure_reasons,
                       detection_rate |-> results[k].detection_rate]))
         ELSE analyze_bugs_from(results, k + 1, found)

analyze_bugs(results) == analyze_bugs_from(results, 1, <<>>)

RECURSIVE SeqSum(_)
SeqSum(s) == IF s = <<>> THEN 0 ELSE Head(s) + SeqSum(Tail(s))

\* overall_detection_rate of calculate_detection_metrics
overall_detection_rate(results) ==
    LET Actual(data) == IF data.has_actual_results
                        THEN IntOr(data.expected_people_count,
                                   data.actual_people_in_scene)
                        ELSE 0
        Detected(data) == IF data.has_actual_results THEN data.detected_people
                          ELSE 0
        total_actual == SeqSum([k \in DOMAIN results |-> Actual(results[k])])
        total_detected ==
            SeqSum([k \in DOMAIN results |-> Detected(results[k])])
    IN  IF total_actual > 0 THEN Frac(total_detected * 100, total_actual)
        ELSE Zero

\* condition_success['good'] of calculate_detection_by_condition
good_condition_success(results) ==
    LET Good(data) == IF data.condition = "good" THEN 1 ELSE 0
        GoodPassed(data) ==
            IF data.condition = "good" /\ data.status = "PASS" THEN 1 ELSE 0
        total == SeqSum([k \in DOMAIN results |-> Good(results[k])])
        passed == SeqSum([k \in DOMAIN results |-> GoodPassed(results[k])])
    IN  IF total > 0 THEN Frac(passed * 100, total)
        ELSE Zero

\* critical_bugs and suitable of generate_report
count_critical(found) ==
    Cardinality({k \in DOMAIN found : found[k].severity = "Critical"})

is_suitable(results, found) ==
    /\ ~RateBelow(overall_detection_rate(results), 85)
    /\ count_critical(found) = 0
    /\ ~RateBelow(good_condition_success(results), 95)

\* the result files next to the one under study
OtherJson ==
    {ResultJson(TestId("EP-", "011"), 10, 10, "medium", 85, "good"),
     ErrorJson(TestId("DT-", "001"))}

ReportCategories == {"small", "medium", "large"}

\* ----------------------------------------------------------------- test runner
\* a file name by its parts, e.g. BVA-001.py = FileName("BVA-", "001", ".py");
\* a name that starts with none of the test prefixes has prefix ""
FileName(prefix, rest, ext) == [prefix |-> prefix, rest |-> rest, ext |-> ext]

\* the names a tests directory may hold, in the order of sorted() on the
\* full names: "BVA-001.py" < "DT-002.py" < "DT-002.txt" < "EP-004.py"
\* < "README.md" < "test_utils.py"
DirectoryPool ==
    <<FileName("BVA-", "001", ".py"), FileName("DT-", "002", ".py"),
      FileName("DT-", "002", ".txt"), FileName("EP-", "004", ".py"),
      FileName("", "README", ".md"), FileName("", "test_utils", ".py")>>

\* sorted(os.listdir(tests_dir)) for the names in listing
RECURSIVE sorted_from(_, _)
sorted_from(listing, k) ==
    IF k > Len(DirectoryPool) THEN <<>>
    ELSE IF DirectoryPool[k] \in listing
         THEN <<DirectoryPool[k]>> \o sorted_from(listing, k + 1)
         ELSE sorted_from(listing, k + 1)

sorted(listing) == sorted_from(listing, 1)

\* filename.endswith('.py') and filename starts with BVA-, EP- or DT-
is_test_file(filename) ==
    filename.ext = ".py" /\ filename.prefix \in {"BVA-", "EP-", "DT-"}

find_all_tests(listing) == SelectSeq(sorted(listing), is_test_file)

\* what subprocess.run gives for one test: the two markers looked for in
\* stdout + stderr, or the exception it raises
Completed(has_pass, has_fail) ==
    [raised |-> "none", has_pass |-> has_pass, has_fail |-> has_fail]

TimeoutExpired == [raised |-> "TimeoutExpired", has_pass |-> FALSE,
                   has_fail |-> FALSE]

OSError == [raised |-> "OSError", has_pass |-> FALSE, has_fail |-> FALSE]

SubprocessOutcomes ==
    {Completed(p, f) : p \in BOOLEAN, f \in BOOLEAN}
        \cup {TimeoutExpired, OSError}

run_single_test_unknown(outcome) ==
    IF outcome.raised = "TimeoutExpired" THEN "TIMEOUT"
    ELSE IF outcome.raised # "none" THEN "ERROR"
    ELSE IF outcome.has_pass THEN "PASS"
    ELSE IF outcome.has_fail THEN "FAIL"
    ELSE "UNKNOWN"

\* the status run_single_test returns
run_single_test(outcome) ==
    IF outcome.raised = "TimeoutExpired" THEN "TIMEOUT"
    ELSE IF outcome.raised # "none" THEN "ERROR"
    ELSE IF outcome.has_pass THEN "PASS"
    ELSE IF outcome.has_fail THEN "FAIL"
    ELSE "ERROR"

\* os.path.basename(test_file).replace('.py', '')
test_name_of(test_file) == TestId(test_file.prefix, test_file.rest)

CountStatus(results, statuses) ==
    Cardinality({k \in DOMAIN results : results[k].status \in statuses})

calculate_pass_fail(results) ==
    LET passed == CountStatus(results, {"PASS"})
        failed == CountStatus(results, {"FAIL", "ERROR", "TIMEOUT"})
        total == Len(results)
    IN  [passed |-> passed, failed |-> failed, total |-> total,
         pass_rate |-> IF total > 0 THEN Frac(passed * 100, total) ELSE Zero,
         fail_rate |-> IF total > 0 THEN Frac(failed * 100, total) ELSE Zero]

\* ---------------------------------------------------------------- demo suites
\* round(x, 4) of a non-negative x = num/den, to the nearest ten-thousandth
Round4(x) == Frac((20000 * x.num + x.den) \div (2 * x.den), 10000)

\* the contents of expected_localizations.json as run_test reads them for one
\* test id: no file at all, a file without 'test_cases', no entry for the
\* test id, or an entry with its (possibly empty) 'localizations' list
NoFile == [kind |-> "no_file", localizations |-> <<>>]
NoTestCases == [kind |-> "no_test_cases", localizations |-> <<>>]
NoEntry == [kind |-> "no_entry", localizations |-> <<>>]
Entry(localizations) == [kind |-> "entry", localizations |-> localizations]

expected_boxes_of_keep_empty(expected_localizations) ==
    IF expected_localizations.kind = "entry"
    THEN [boxes |-> expected_localizations.localizations]
    ELSE None

\* expected_boxes of run_test: the list (as [boxes |-> list]) if there is a
\* non-empty one, else None
expected_boxes_of(expected_localizations) ==
    IF expected_localizations.kind = "entry"
       /\ expected_localizations.localizations # <<>>
    THEN [boxes |-> expected_localizations.localizations]
    ELSE None

\* create_json_output of the demo suites
demo_create_json_output(detected_count, expected_count, passed) ==
    [detection_results |->
         [expected_count |-> expected_count,
          detected_count |-> detected_count,
          count_difference |-> detected_count - expected_count],
     test_result |-> [status |-> IF passed THEN "PASS" ELSE "FAIL",
                      passed |-> passed]]

\* loc_info of run_test, from the score tuple and len(expected_boxes)
loc_info_from(score, total) ==
    [matched |-> score.matched_count,
     total |-> total,
     avg_iou |-> score.avg_iou,
     details |-> score.details]

\* the localization step of run_test: taken only with expected boxes
loc_info_of(expected_boxes_, objects) ==
    IF expected_boxes_ # None
    THEN loc_info_from(calculate_localization_score(expected_boxes_.boxes,
                           objects, [num |-> 3, den |-> 10]),
                       Len(expected_boxes_.boxes))
    ELSE None

run_test_from_localization_gates(expected_count, detected_count, expected_boxes_, loc_info) ==
    LET count_passed == (detected_count = expected_count)
        json_data == demo_create_json_output(detected_count, expected_count,
                         count_passed /\ (loc_info = None
                                          \/ loc_info.matched = loc_info.total))
    IN  [returned |->
             [expected |-> expected_count,
              detected |-> detected_count,
              count_passed |-> json_data.test_result.passed,
              loc_info |-> loc_info,
              expected_boxes |-> expected_boxes_],
         json_data |->
             IF loc_info # None
             THEN json_data @@
                  ("localization_results" :>
                      [expected_boxes |-> Len(expected_boxes_.boxes),
                       matched_boxes |-> loc_info.matched,
                       average_iou |-> Round4(loc_info.avg_iou),
                       iou_threshold |-> [num |-> 3, den |-> 10],
                       details |-> loc_info.details])
             ELSE json_data]

\* run_test once the image is loaded and the objects are filtered: the count
\* verdict, the JSON data and the returned dict
run_test_from(expected_count, detected_count, expected_boxes_, loc_info) ==
    LET count_passed == (detected_count = expected_count)
        json_data == demo_create_json_output(detected_count, expected_count,
                                             count_passed)
    IN  [returned |->
             [expected |-> expected_count,
              detected |-> detected_count,
              count_passed |-> count_passed,
              loc_info |-> loc_info,
              expected_boxes |-> expected_boxes_],
         json_data |->
             IF loc_info # None
             THEN json_data @@
                  ("localization_results" :>
                      [expected_boxes |-> Len(expected_boxes_.boxes),
                       matched_boxes |-> loc_info.matched,
                       average_iou |-> Round4(loc_info.avg_iou),
                       iou_threshold |-> [num |-> 3, den |-> 10],
                       details |-> loc_info.details])
             ELSE json_data]

\* run_test: what it returns and the JSON data it saves (None: nothing saved)
run_test(image_found, expected_count, expected_localizations, objects) ==
    IF ~image_found THEN [returned |-> None, json_data |-> None]
    ELSE run_test_from(expected_count, Len(objects),
                       expected_boxes_of(expected_localizations),
                       loc_info_of(expected_boxes_of(expected_localizations),
                                   objects))

\* the expected boxes of the demo inputs
DemoExpectedPool ==
    {[bounding_box |-> Box(0, 0, 2, 2)], [bounding_box |-> Box(0, 0, 4, 2)],
     [bounding_box |-> Box(2, 2, 4, 4)]}

DemoLocalizations ==
    {NoFile, NoTestCases, NoEntry}
        \cup {Entry(l) : l \in SeqsUpTo(DemoExpectedPool, MaxExpectedBoxes)}

\* ------------------------------------------------------- repeated evaluation
\* the arguments of one call of calculate_localization_score or
\* calculate_metrics
LocArgs(expected_boxes, detected_objects, iou_thr) ==
    [fn |-> "calculate_localization_score", expected_boxes |-> expected_boxes,
     detected_objects |-> detected_objects, iou_threshold |-> iou_thr]

MetricsArgs(actual_people, detected_people, group_size_category) ==
    [fn |-> "calculate_metrics", actual_people |-> actual_people,
     detected_people |-> detected_people,
     group_size_category |-> group_size_category]

\* the call: its return value and the argument objects as the call leaves
\* them (both functions read their arguments and assign only to locals)
Evaluate(args) ==
    [value |-> IF args.fn = "calculate_localization_score"
               THEN calculate_localization_score(args.expected_boxes,
                        args.detected_objects, args.iou_threshold)
               ELSE calculate_metrics(args.actual_people, args.detected_people,
                                      args.group_size_category),
     args_after |-> args]

RetryArgs ==
    {LocArgs(eb, dobj, thr) :
        eb \in SeqsUpTo(DemoExpectedPool, MaxExpectedBoxes),
        dobj \in SeqsUpTo(DetectedPool, MaxDetectedBoxes),
        thr \in IoUThresholds}
    \cup {MetricsArgs(e, d, c) :
        e \in 0 .. MaxPeople, d \in 0 .. MaxDetected, c \in Categories}

\* ------------------------------------------------------------------- state
VARIABLES pc, op, actual_people, detected_people, group_size_category,
          detection_threshold, metrics, test_passed, failure_reasons,
          json_result, raised

evalVars == <<pc, op, actual_people, detected_people, group_size_category,
              detection_threshold, metrics, test_passed, failure_reasons,
              json_result, raised>>

VARIABLES mpc, expected_boxes, detected_objects, iou_threshold, loc_result

matchVars == <<mpc, expected_boxes, detected_objects, iou_threshold, loc_result>>

VARIABLES ipc, box1, box2, iou_result

iouVars == <<ipc, box1, box2, iou_result>>

VARIABLES spc, script_id, image_files, image_removed, script_result

scriptVars == <<spc, script_id, image_files, image_removed, script_result>>

VARIABLES rpc, dir_listing, test_files, test_results, pass_fail

runnerVars == <<rpc, dir_listing, test_files, test_results, pass_fail>>

VARIABLES gpc, json_results, bugs, critical_bugs, suitable

reportVars == <<gpc, json_results, bugs, critical_bugs, suitable>>

VARIABLES dpc, demo_input, filtered_objects, demo_result, demo_json

demoVars == <<dpc, demo_input, filtered_objects, demo_result, demo_json>>

VARIABLES tpc, retry_args, first_result, second_result

retryVars == <<tpc, retry_args, first_result, second_result>>

extVars == <<scriptVars, runnerVars, reportVars, demoVars, retryVars>>

vars == <<evalVars, matchVars, iouVars, extVars>>

EvalInit ==
    /\ pc = "idle"
    /\ op = "none"
    /\ actual_people = 0
    /\ detected_people = 0
    /\ group_size_category = "small"
    /\ detection_threshold = 85
    /\ metrics = None
    /\ test_passed = None
    /\ failure_reasons = <<>>
    /\ json_result = None
    /\ raised = "none"

MatchInit ==
    /\ mpc = "idle"
    /\ expected_boxes = <<>>
    /\ detected_objects = <<>>
    /\ iou_threshold = [num |-> 3, den |-> 10]
    /\ loc_result = None

IoUInit ==
    /\ ipc = "idle"
    /\ box1 = Box(0, 0, 0, 0)
    /\ box2 = Box(0, 0, 0, 0)
    /\ iou_result = None

ScriptInit ==
    /\ spc = "idle"
    /\ script_id = "none"
    /\ image_files = {}
    /\ image_removed = FALSE
    /\ script_result = None

RunnerInit ==
    /\ rpc = "idle"
    /\ dir_listing = {}
    /\ test_files = <<>>
    /\ test_results = <<>>
    /\ pass_fail = None

ReportInit ==
    /\ gpc = "idle"
    /\ json_results = <<>>
    /\ bugs = <<>>
    /\ critical_bugs = 0
    /\ suitable = None

DemoInit ==
    /\ dpc = "idle"
    /\ demo_input = None
    /\ filtered_objects = <<>>
    /\ demo_result = None
    /\ demo_json = None

RetryInit ==
    /\ tpc = "idle"
    /\ retry_args = None
    /\ first_result = None
    /\ second_result = None

Init ==
    /\ EvalInit /\ MatchInit /\ IoUInit
    /\ ScriptInit /\ RunnerInit /\ ReportInit /\ DemoInit /\ RetryInit

\* a direct call calculate_metrics(e, d, category) with arbitrary arguments
CallCalculateMetrics ==
    /\ pc = "idle"
    /\ \E e \in -1 .. MaxPeople, d \in -1 .. MaxDetected, c \in CategoryInputs :
        /\ actual_people' = e
        /\ detected_people' = d
        /\ group_size_category' = c
        /\ metrics' = calculate_metrics(e, d, c)
    /\ op' = "calculate_metrics"
    /\ pc' = "done"
    /\ UNCHANGED <<detection_threshold, test_passed, failure_reasons,
                   json_result, raised>>
    /\ UNCHANGED <<matchVars, iouVars, extVars>>

\* a decision-table script run to its JSON output
TestDT ==
    /\ pc = "idle"
    /\ \E e \in 0 .. MaxPeople, d \in 0 .. MaxDetected, c \in Categories,
          t \in Thresholds :
        LET m == calculate_metrics(e, d, c)
            v == dt_verdict(m, e, d, t)
        IN  /\ actual_people' = e
            /\ detected_people' = d
            /\ group_size_category' = c
            /\ detection_threshold' = t
            /\ metrics' = m
            /\ test_passed' = v.test_passed
            /\ failure_reasons' = v.failure_reasons
            /\ json_result' = create_json_output(v.test_passed, v.failure_reasons)
    /\ op' = "test_dt"
    /\ pc' = "done"
    /\ UNCHANGED raised
    /\ UNCHANGED <<matchVars, iouVars, extVars>>

\* a BVA/EP script with a positive ground-truth count run to its JSON output
TestEP ==
    /\ pc = "idle"
    /\ \E e \in 1 .. MaxPeople, d \in 0 .. MaxDetected, c \in Categories,
          t \in Thresholds :
        LET m == calculate_metrics(e, d, c)
            v == ep_verdict(m, t)
        IN  /\ actual_people' = e
            /\ detected_people' = d
            /\ group_size_category' = c
            /\ detection_threshold' = t
            /\ metrics' = m
            /\ test_passed' = v.test_passed
            /\ failure_reasons' = v.failure_reasons
            /\ json_result' = create_json_output(v.test_passed, v.failure_reasons)
    /\ op' = "test_ep"
    /\ pc' = "done"
    /\ UNCHANGED raised
    /\ UNCHANGED <<matchVars, iouVars, extVars>>

\* BVA-001: ground truth 0, hand-built metrics, [] passed as failure_reasons
TestBVA001 ==
    /\ pc = "idle"
    /\ \E d \in 0 .. MaxDetected :
        LET passed == (d = 0)
        IN  /\ detected_people' = d
            /\ metrics' = [detection_rate |-> NoRate,
                           count_tolerance |-> 0,
                           count_error |-> d,
                           count_within_tolerance |-> (d = 0),
                           false_positives |-> d,
                           false_negatives |-> 0]
            /\ test_passed' = passed
            /\ json_result' = create_json_output(passed, <<>>)
    /\ actual_people' = 0
    /\ failure_reasons' = <<>>
    /\ op' = "test_bva_001"
    /\ pc' = "done"
    /\ UNCHANGED <<group_size_category, detection_threshold, raised>>
    /\ UNCHANGED <<matchVars, iouVars, extVars>>

\* a direct call get_group_size_category(people_count)
CallGetGroupSizeCategory ==
    /\ pc = "idle"
    /\ \E n \in -1 .. MaxPeople :
        /\ actual_people' = n
        /\ group_size_category' = get_group_size_category(n)
    /\ op' = "get_group_size_category"
    /\ pc' = "done"
    /\ UNCHANGED <<detected_people, detection_threshold, metrics, test_passed,
                   failure_reasons, json_result, raised>>
    /\ UNCHANGED <<matchVars, iouVars, extVars>>

\* the call has returned / the script process has exited
Return ==
    /\ pc = "done"
    /\ pc' = "idle"
    /\ op' = "none"
    /\ actual_people' = 0
    /\ detected_people' = 0
    /\ group_size_category' = "small"
    /\ detection_threshold' = 85
    /\ metrics' = None
    /\ test_passed' = None
    /\ failure_reasons' = <<>>
    /\ json_result' = None
    /\ UNCHANGED raised
    /\ UNCHANGED <<matchVars, iouVars, extVars>>

Next ==
    \/ CallCalculateMetrics
    \/ TestDT
    \/ TestEP
    \/ TestBVA001
    \/ CallGetGroupSizeCategory
    \/ Return

Spec == Init /\ [][Next]_vars

\* a call calculate_localization_score(expected_boxes, detected_objects, thr)
CallLocalizationScore ==
    /\ mpc = "idle"
    /\ \E eb \in SeqsUpTo(ExpectedPool, MaxExpectedBoxes),
          dobj \in SeqsUpTo(DetectedPool, MaxDetectedBoxes),
          thr \in IoUThresholds :
        /\ expected_boxes' = eb
        /\ detected_objects' = dobj
        /\ iou_threshold' = thr
        /\ loc_result' = calculate_localization_score(eb, dobj, thr)
    /\ mpc' = "done"
    /\ UNCHANGED <<evalVars, iouVars, extVars>>

\* the call has returned
MatchReturn ==
    /\ mpc = "done"
    /\ mpc' = "idle"
    /\ expected_boxes' = <<>>
    /\ detected_objects' = <<>>
    /\ iou_threshold' = [num |-> 3, den |-> 10]
    /\ loc_result' = None
    /\ UNCHANGED <<evalVars, iouVars, extVars>>

MatchNext ==
    \/ CallLocalizationScore
    \/ MatchReturn

SpecMatch == Init /\ [][MatchNext]_vars

\* a call calculate_iou(box1, box2)
CallIoU ==
    /\ ipc = "idle"
    /\ \E a \in Rectangles, b \in Rectangles :
        /\ box1' = a
        /\ box2' = b
        /\ iou_result' = calculate_iou(a, b)
    /\ ipc' = "done"
    /\ UNCHANGED <<evalVars, matchVars, extVars>>

\* the call has returned
IoUReturn ==
    /\ ipc = "done"
    /\ ipc' = "idle"
    /\ box1' = Box(0, 0, 0, 0)
    /\ box2' = Box(0, 0, 0, 0)
    /\ iou_result' = None
    /\ UNCHANGED <<evalVars, matchVars, extVars>>

IoUNext ==
    \/ CallIoU
    \/ IoUReturn

SpecIoU == Init /\ [][IoUNext]_vars

\* one run of a decision-table script as a process of its own
RunDTScript ==
    /\ spc = "idle"
    /\ \E id \in DTScripts, files \in SUBSET Range(image_extensions),
          removed \in BOOLEAN, d \in 0 .. MaxDetected :
        /\ removed => files # {}
        /\ script_id' = id
        /\ image_files' = files
        /\ image_removed' = removed
        /\ script_result' =
              test_dt_script(id, files, IF removed THEN {} ELSE files, d)
    /\ spc' = "done"
    /\ UNCHANGED <<evalVars, matchVars, iouVars>>
    /\ UNCHANGED <<runnerVars, reportVars, demoVars, retryVars>>

\* the script process has exited
ScriptExit ==
    /\ spc = "done"
    /\ spc' = "idle"
    /\ script_id' = "none"
    /\ image_files' = {}
    /\ image_removed' = FALSE
    /\ script_result' = None
    /\ UNCHANGED <<evalVars, matchVars, iouVars>>
    /\ UNCHANGED <<runnerVars, reportVars, demoVars, retryVars>>

ScriptNext ==
    \/ RunDTScript
    \/ ScriptExit

SpecScript == Init /\ [][ScriptNext]_vars

\* ReportGenerator.generate_report on the loaded result files: the bug
\* analysis, the count of critical bugs and the suitability conclusion
GenerateReport ==
    /\ gpc = "idle"
    /\ \E prefix \in {"BVA-", "EP-", "DT-"}, e \in 0 .. MaxPeople,
          d \in 0 .. MaxDetected, c \in ReportCategories,
          condition \in {"good", "challenging"},
          rest \in SeqsUpTo(OtherJson, 1) :
        /\ prefix # "DT-" => e > 0
        /\ LET results == <<ResultJson(TestId(prefix, "002"), e, d, c, 85,
                                       condition)>> \o rest
               found == analyze_bugs(results)
           IN  /\ json_results' = results
               /\ bugs' = found
               /\ critical_bugs' = count_critical(found)
               /\ suitable' = is_suitable(results, found)
    /\ gpc' = "done"
    /\ UNCHANGED <<evalVars, matchVars, iouVars>>
    /\ UNCHANGED <<scriptVars, runnerVars, demoVars, retryVars>>

\* the report is written and the generator dropped
ReportReturn ==
    /\ gpc = "done"
    /\ gpc' = "idle"
    /\ json_results' = <<>>
    /\ bugs' = <<>>
    /\ critical_bugs' = 0
    /\ suitable' = None
    /\ UNCHANGED <<evalVars, matchVars, iouVars>>
    /\ UNCHANGED <<scriptVars, runnerVars, demoVars, retryVars>>

ReportNext ==
    \/ GenerateReport
    \/ ReportReturn

SpecReport == Init /\ [][ReportNext]_vars

\* run_all_tests starts: the test files are discovered
FindAllTests ==
    /\ rpc = "idle"
    /\ \E listing \in SUBSET Range(DirectoryPool) :
        /\ dir_listing' = listing
        /\ test_files' = find_all_tests(listing)
    /\ test_results' = <<>>
    /\ rpc' = "running"
    /\ UNCHANGED pass_fail
    /\ UNCHANGED <<evalVars, matchVars, iouVars>>
    /\ UNCHANGED <<scriptVars, reportVars, demoVars, retryVars>>

\* one iteration of the loop of run_all_tests
RunSingleTest ==
    /\ rpc = "running"
    /\ Len(test_results) < Len(test_files)
    /\ \E outcome \in SubprocessOutcomes :
        test_results' = Append(test_results,
            [test_id |-> test_name_of(test_files[Len(test_results) + 1]),
             status |-> run_single_test(outcome),
             output |-> outcome])
    /\ UNCHANGED <<rpc, dir_listing, test_files, pass_fail>>
    /\ UNCHANGED <<evalVars, matchVars, iouVars>>
    /\ UNCHANGED <<scriptVars, reportVars, demoVars, retryVars>>

\* the loop of run_all_tests has run out of files
AllTestsCompleted ==
    /\ rpc = "running"
    /\ Len(test_results) >= Len(test_files)
    /\ rpc' = "completed"
    /\ UNCHANGED <<dir_listing, test_files, test_results, pass_fail>>
    /\ UNCHANGED <<evalVars, matchVars, iouVars>>
    /\ UNCHANGED <<scriptVars, reportVars, demoVars, retryVars>>

\* ReportGenerator(runner.test_results, ...).calculate_pass_fail()
CalculatePassFail ==
    /\ rpc = "completed"
    /\ pass_fail' = calculate_pass_fail(test_results)
    /\ rpc' = "reported"
    /\ UNCHANGED <<dir_listing, test_files, test_results>>
    /\ UNCHANGED <<evalVars, matchVars, iouVars>>
    /\ UNCHANGED <<scriptVars, reportVars, demoVars, retryVars>>

\* main has returned
RunnerExit ==
    /\ rpc = "reported"
    /\ rpc' = "idle"
    /\ dir_listing' = {}
    /\ test_files' = <<>>
    /\ test_results' = <<>>
    /\ pass_fail' = None
    /\ UNCHANGED <<evalVars, matchVars, iouVars>>
    /\ UNCHANGED <<scriptVars, reportVars, demoVars, retryVars>>

RunnerNext ==
    \/ FindAllTests
    \/ RunSingleTest
    \/ AllTestsCompleted
    \/ CalculatePassFail
    \/ RunnerExit

SpecRunner == Init /\ [][RunnerNext]_vars

\* one call of run_test of a demo suite
RunTest ==
    /\ dpc = "idle"
    /\ \E found \in BOOLEAN, n \in 0 .. MaxDetectedBoxes,
          loc \in DemoLocalizations,
          objs \in SeqsUpTo(DetectedPool, MaxDetectedBoxes) :
        /\ ~found => (n = 0 /\ loc = NoFile /\ objs = <<>>)
        /\ demo_input' = [image_found |-> found, expected_count |-> n,
                          expected_localizations |-> loc]
        /\ filtered_objects' = objs
        /\ LET r == run_test(found, n, loc, objs)
           IN  /\ demo_result' = r.returned
               /\ demo_json' = r.json_data
    /\ dpc' = "done"
    /\ UNCHANGED <<evalVars, matchVars, iouVars>>
    /\ UNCHANGED <<scriptVars, runnerVars, reportVars, retryVars>>

\* the caller has taken the result
RunTestReturn ==
    /\ dpc = "done"
    /\ dpc' = "idle"
    /\ demo_input' = None
    /\ filtered_objects' = <<>>
    /\ demo_result' = None
    /\ demo_json' = None
    /\ UNCHANGED <<evalVars, matchVars, iouVars>>
    /\ UNCHANGED <<scriptVars, runnerVars, reportVars, retryVars>>

DemoNext ==
    \/ RunTest
    \/ RunTestReturn

SpecDemo == Init /\ [][DemoNext]_vars

\* a first evaluation on freshly built arguments
EvaluateOnce ==
    /\ tpc = "idle"
    /\ \E args \in RetryArgs :
        LET r == Evaluate(args)
        IN  /\ first_result' = [passed |-> args, value |-> r.value]
            /\ retry_args' = r.args_after
    /\ tpc' = "once"
    /\ UNCHANGED second_result
    /\ UNCHANGED <<evalVars, matchVars, iouVars>>
    /\ UNCHANGED <<scriptVars, runnerVars, reportVars, demoVars>>

\* a second evaluation on the same argument objects
EvaluateAgain ==
    /\ tpc = "once"
    /\ LET r == Evaluate(retry_args)
       IN  /\ second_result' = r.value
           /\ retry_args' = r.args_after
    /\ tpc' = "twice"
    /\ UNCHANGED first_result
    /\ UNCHANGED <<evalVars, matchVars, iouVars>>
    /\ UNCHANGED <<scriptVars, runnerVars, reportVars, demoVars>>

\* the caller drops arguments and results
RetryReturn ==
    /\ tpc = "twice"
    /\ tpc' = "idle"
    /\ retry_args' = None
    /\ first_result' = None
    /\ second_result' = None
    /\ UNCHANGED <<evalVars, matchVars, iouVars>>
    /\ UNCHANGED <<scriptVars, runnerVars, reportVars, demoVars>>

RetryNext ==
    \/ EvaluateOnce
    \/ EvaluateAgain
    \/ RetryReturn

SpecRetry == Init /\ [][RetryNext]_vars

\* ------------------------------------------------------------------ claims
ScriptOps == {"test_dt", "test_ep"}

\* the verdict of a script for another detected count, same configuration
ScriptVerdict(o, e, d, c, t) ==
    IF o = "test_dt"
    THEN dt_verdict(calculate_metrics(e, d, c), e, d, t)
    ELSE ep_verdict(calculate_metrics(e, d, c), t)

\* the tolerance bands of the specification's data model
ToleranceSpec(c, e) ==
    CASE c \in {"individual", "small"} -> 1
      [] c = "medium" -> 2
      [] c \in {"large", "crowd"} -> e \div 5

\* C1: with a positive expected count the verdict is PASS iff
\* detected / expected * 100 >= threshold and |detected - expected| is at
\* most the tolerance of the category (1, 1, 2, 20%, 20%).
C1_VerdictIffRateAndTolerance ==
    (pc = "done" /\ op \in ScriptOps /\ actual_people > 0) =>
        (test_passed <=>
            /\ detected_people * 100 >= detection_threshold * actual_people
            /\ Abs(detected_people - actual_people)
                   <= ToleranceSpec(group_size_category, actual_people))

\* C2: with expected count 0 the verdict is PASS iff nothing was detected,
\* whatever the category, tolerance and threshold.
C2_ZeroExpectedPassIffNoneDetected ==
    (pc = "done" /\ op \in {"test_dt", "test_bva_001"} /\ actual_people = 0) =>
        /\ test_passed <=> (detected_people = 0)
        /\ (json_result.status = "PASS") <=> (detected_people = 0)

C2_Witness ==
    /\ pc = "done" /\ op = "test_dt" /\ actual_people = 0
    /\ detected_people = 1 /\ group_size_category = "medium"
    /\ metrics.count_within_tolerance /\ test_passed = FALSE

\* C3: for category 'crowd' the count tolerance is floor(expected * 0.20),
\* so DT-006 (22 people, threshold 85) accepts every count error up to 4
\* that meets the detection rate.
C3_CrowdToleranceTwentyPercent ==
    (pc = "done" /\ op \in ScriptOps \cup {"calculate_metrics"}
        /\ group_size_category = "crowd" /\ actual_people >= 0
        /\ detected_people >= 0) =>
        /\ metrics.count_tolerance = actual_people \div 5
        /\ (op = "test_dt" /\ actual_people = 22 /\ detection_threshold = 85) =>
              (test_passed <=>
                  /\ detected_people * 100 >= 85 * 22
                  /\ Abs(detected_people - 22) <= 4)

\* C4: for expected >= 0 the tolerance is 1 for individual and small, 2 for
\* medium, the truncated 20% of expected for large, and never negative.
C4_ToleranceTable ==
    (pc = "done" /\ op \in ScriptOps \cup {"calculate_metrics"}
        /\ actual_people >= 0) =>
        LET tol == metrics.count_tolerance
        IN  /\ tol \in Nat
            /\ group_size_category \in {"individual", "small"} => tol = 1
            /\ group_size_category = "medium" => tol = 2
            /\ group_size_category = "large" =>
                  (5 * tol <= actual_people /\ actual_people < 5 * tol + 5)

C4_Witness ==
    /\ pc = "done" /\ op = "calculate_metrics"
    /\ group_size_category = "large" /\ actual_people = 19
    /\ metrics.count_tolerance = 3

\* C5: a negative expected or detected count or an unrecognised category
\* makes the evaluation fail with InvalidInput and yields no verdict.
C5_InvalidInputRejected ==
    (pc = "done" /\ op = "calculate_metrics"
        /\ (actual_people < 0 \/ detected_people < 0
            \/ group_size_category \notin Categories)) =>
        (raised = "InvalidInput" /\ metrics = None)

\* C6 (as stated): once a detected count fails, every detected count with a
\* larger distance from the expected count fails too.
C6_FailStaysFailWithLargerError ==
    (pc = "done" /\ op \in ScriptOps /\ actual_people > 0 /\ test_passed = FALSE) =>
        \A d2 \in 0 .. MaxDetected :
            Abs(d2 - actual_people) > Abs(detected_people - actual_people) =>
                ~ScriptVerdict(op, actual_people, d2, group_size_category,
                               detection_threshold).test_passed

\* C6 (amended): once a detected count fails, every detected count with a
\* larger distance from the expected count fails too, except an
\* over-detection compared with a failed under-detection.
C6_FailStaysFailSameSide ==
    (pc = "done" /\ op \in ScriptOps /\ actual_people > 0 /\ test_passed = FALSE) =>
        \A d2 \in 0 .. MaxDetected :
            (/\ Abs(d2 - actual_people) > Abs(detected_people - actual_people)
             /\ ~(detected_people < actual_people /\ d2 > actual_people)) =>
                ~ScriptVerdict(op, actual_people, d2, group_size_category,
                               detection_threshold).test_passed

C6_Witness ==
    /\ pc = "done" /\ op = "test_ep" /\ actual_people = 6
    /\ detected_people = 9 /\ group_size_category = "medium"
    /\ detection_threshold = 85 /\ test_passed = FALSE

\* C7: a detected count equal to a positive expected count passes for every
\* category and every threshold up to 100.
C7_ExactCountPasses ==
    (pc = "done" /\ op \in ScriptOps /\ actual_people > 0
        /\ detected_people = actual_people) =>
        (test_passed = TRUE /\ json_result.status = "PASS")

C7_Witness ==
    /\ pc = "done" /\ op = "test_ep" /\ actual_people = 3
    /\ detected_people = 3 /\ group_size_category = "large"
    /\ metrics.count_tolerance = 0 /\ detection_threshold = 100
    /\ test_passed = TRUE

C9_FailCarriesReason ==
    (pc = "done" /\ op \in ScriptOps \cup {"test_bva_001"}
        /\ json_result.status = "FAIL") =>
        Len(json_result.failure_reasons) >= 1

\* the detected boxes (1-based) taken by the matched records before record k
UsedBefore(k) ==
    {loc_result.details[j].detected_id :
        j \in {j \in 1 .. k - 1 : loc_result.details[j].matched}}

\* IoU of expected box k with detected object j (both 1-based)
PairIoU(k, j) ==
    calculate_iou(expected_boxes[k].bounding_box,
                  convert_detected_to_box(detected_objects[j]))

Candidates(k) == (1 .. Len(detected_objects)) \ UsedBefore(k)

\* the highest IoU of expected box k among the not-yet-used detected boxes
HighestIoU(k) ==
    LET S == {PairIoU(k, j) : j \in Candidates(k)}
    IN  CHOOSE m \in S : \A x \in S : FracGeq(m, x)

\* a matched record names a not-yet-used detected box of the highest IoU
MatchedIsBestCandidate(k) ==
    LET r == loc_result.details[k]
    IN  r.matched =>
            /\ r.detected_id \in Candidates(k)
            /\ PairIoU(k, r.detected_id) = HighestIoU(k)
            /\ r.iou = HighestIoU(k)

\* C10 (as stated): for each expected box in input order a match with the
\* not-yet-used detected box of the highest IoU is recorded iff that IoU is
\* >= iou_threshold, for every threshold >= 0.
C10_MatchIffBestAtLeastThreshold ==
    (mpc = "done") =>
        \A k \in 1 .. Len(loc_result.details) :
            /\ MatchedIsBestCandidate(k)
            /\ Candidates(k) = {} => ~loc_result.details[k].matched
            /\ Candidates(k) # {} =>
                  (loc_result.details[k].matched
                      <=> FracGeq(HighestIoU(k), iou_threshold))

\* C10 (amended): a match with the not-yet-used detected box of the highest
\* IoU is recorded iff that IoU is >= iou_threshold and greater than 0.
C10_MatchIffBestAtLeastThresholdAndPositive ==
    (mpc = "done") =>
        \A k \in 1 .. Len(loc_result.details) :
            /\ MatchedIsBestCandidate(k)
            /\ Candidates(k) = {} => ~loc_result.details[k].matched
            /\ Candidates(k) # {} =>
                  (loc_result.details[k].matched
                      <=> (/\ FracGeq(HighestIoU(k), iou_threshold)
                           /\ FracLess(Zero, HighestIoU(k))))

C10_Witness ==
    /\ mpc = "done" /\ iou_threshold = Zero
    /\ Len(loc_result.details) = 2
    /\ loc_result.details[1].matched /\ loc_result.details[1].detected_id = 2
    /\ ~loc_result.details[2].matched
    /\ Candidates(2) # {} /\ HighestIoU(2) = Zero

Area(b) == (b.x_max - b.x_min) * (b.y_max - b.y_min)

\* the detail records (by position) that name expected index i
RecordsOf(i) ==
    {k \in 1 .. Len(loc_result.details) : loc_result.details[k].expected_id = i}

MatchedRecords ==
    {k \in 1 .. Len(loc_result.details) : loc_result.details[k].matched}

NoDetectedTwice ==
    \A k1, k2 \in MatchedRecords :
        loc_result.details[k1].detected_id = loc_result.details[k2].detected_id
            => k1 = k2

\* C11 (as stated): no detected index appears in two matched records and
\* every expected index appears in exactly one detail record, for all inputs.
C11_PartialBijectionExactlyOneRecord ==
    (mpc = "done") =>
        /\ NoDetectedTwice
        /\ \A i \in 1 .. Len(expected_boxes) : Cardinality(RecordsOf(i)) = 1

\* C11 (amended): no detected index appears in two matched records and every
\* expected index appears in at most one detail record: in exactly one when
\* the detected sequence is non-empty, in none when it is empty.
C11_PartialBijection ==
    (mpc = "done") =>
        /\ NoDetectedTwice
        /\ \A k \in MatchedRecords :
              loc_result.details[k].detected_id \in 1 .. Len(detected_objects)
        /\ \A i \in 1 .. Len(expected_boxes) :
              Cardinality(RecordsOf(i)) =
                  (IF detected_objects = <<>> THEN 0 ELSE 1)

C11_Witness ==
    /\ mpc = "done" /\ Len(loc_result.details) = 2
    /\ MatchedRecords = {1, 2}
    /\ loc_result.details[1].detected_id = 1
    /\ loc_result.details[2].detected_id = 2
    /\ FracLess(loc_result.details[2].iou, PairIoU(2, 1))

\* C12: matched_count never exceeds the number of expected boxes nor the
\* number of detected boxes.
C12_MatchedCountAtMostMin ==
    (mpc = "done") =>
        loc_result.matched_count
            <= Min(Len(expected_boxes), Len(detected_objects))

C12_Witness ==
    /\ mpc = "done" /\ Len(expected_boxes) = 2 /\ Len(detected_objects) = 1
    /\ loc_result.matched_count = 1
    /\ FracGeq(PairIoU(1, 1), iou_threshold)
    /\ FracGeq(PairIoU(2, 1), iou_threshold)
    /\ FracLess(Zero, iou_threshold)

\* C13: two empty sequences give matched_count 0 and average_iou 1.0, exactly
\* one empty sequence gives matched_count 0 and average_iou 0.0, and the
\* details list is empty in both cases.
C13_DegenerateInputs ==
    (mpc = "done") =>
        /\ (expected_boxes = <<>> /\ detected_objects = <<>>) =>
              loc_result = [matched_count |-> 0, avg_iou |-> One, details |-> <<>>]
        /\ ((expected_boxes = <<>>) # (detected_objects = <<>>)) =>
              loc_result = [matched_count |-> 0, avg_iou |-> Zero, details |-> <<>>]

C13_Witness ==
    /\ mpc = "done" /\ expected_boxes = <<>> /\ detected_objects = <<>>
    /\ loc_result.avg_iou = One /\ loc_result.details = <<>>

\* C14: calculate_iou(a, b) = calculate_iou(b, a) for all rectangles a, b.
C14_IoUSymmetric ==
    (ipc = "done") => iou_result = calculate_iou(box2, box1)

C14_Witness ==
    /\ ipc = "done" /\ Area(box1) # Area(box2)
    /\ FracLess(Zero, iou_result) /\ FracLess(iou_result, One)

\* rectangles whose interiors do not overlap (apart, or touching along an
\* edge or at a corner)
Disjoint(a, b) ==
    \/ Min(a.x_max, b.x_max) <= Max(a.x_min, b.x_min)
    \/ Min(a.y_max, b.y_max) <= Max(a.y_min, b.y_min)

\* C15 (as stated): calculate_iou(r, r) = 1.0 for every rectangle r, and
\* calculate_iou = 0.0 for every two disjoint or merely touching rectangles.
C15_IdenticalOneDisjointZero ==
    (ipc = "done") =>
        /\ box1 = box2 => iou_result = One
        /\ (box1 # box2 /\ Disjoint(box1, box2)) => iou_result = Zero

\* C15 (amended): calculate_iou(r, r) = 1.0 for every rectangle r of
\* positive area (it is 0.0 when r has zero area), and calculate_iou = 0.0
\* for every two disjoint or merely touching rectangles.
C15_IdenticalPositiveAreaOneDisjointZero ==
    (ipc = "done") =>
        /\ (box1 = box2 /\ Area(box1) > 0) => iou_result = One
        /\ (box1 = box2 /\ Area(box1) = 0) => iou_result = Zero
        /\ Disjoint(box1, box2) => iou_result = Zero

C15_Witness ==
    /\ ipc = "done" /\ box1 = box2 /\ Area(box1) > 0 /\ iou_result = One

\* C16: calculate_iou never divides by zero; it returns 0 whenever the union
\* area is 0 and whenever one of the rectangles has zero area.
C16_ZeroAreaFallback ==
    (ipc = "done") =>
        /\ iou_result # ZeroDivisionError
        /\ (\/ Area(box1) = 0
            \/ Area(box2) = 0
            \/ Area(box1) + Area(box2)
                 - (Min(box1.x_max, box2.x_max) - Max(box1.x_min, box2.x_min))
                   * (Min(box1.y_max, box2.y_max) - Max(box1.y_min, box2.y_min)) = 0)
              => iou_result = Zero

C16_Witness ==
    /\ ipc = "done" /\ box1 = box2 /\ Area(box1) = 0 /\ iou_result = Zero

\* the sequence s without its element at position k
RemoveAt(s, k) == SubSeq(s, 1, k - 1) \o SubSeq(s, k + 1, Len(s))

\* the IoU values of the matched records, in record order
RECURSIVE MatchedIoUsUpTo(_)
MatchedIoUsUpTo(k) ==
    IF k = 0 THEN <<>>
    ELSE IF loc_result.details[k].matched
         THEN Append(MatchedIoUsUpTo(k - 1), loc_result.details[k].iou)
         ELSE MatchedIoUsUpTo(k - 1)

MeanOfMatched ==
    LET ious == MatchedIoUsUpTo(Len(loc_result.details))
    IN  FracDivInt(FracSum(ious), Len(ious))

\* expected box k got no partner
EndsUnmatched(k) ==
    loc_result.details = <<>> \/ ~loc_result.details[k].matched

AverageIsMeanOfMatched ==
    /\ MatchedRecords # {} => loc_result.avg_iou = MeanOfMatched
    /\ (expected_boxes # <<>> /\ detected_objects # <<>> /\ MatchedRecords = {})
          => loc_result.avg_iou = Zero

\* C17 (as stated): average_iou is the mean IoU of the matched pairs only;
\* it is the same with and without an expected box that ends unmatched, and
\* it is 0.0 for non-empty inputs without a matched pair.
C17_AverageOverMatchedOnly ==
    (mpc = "done") =>
        /\ AverageIsMeanOfMatched
        /\ \A k \in 1 .. Len(expected_boxes) :
              EndsUnmatched(k) =>
                  calculate_localization_score(RemoveAt(expected_boxes, k),
                      detected_objects, iou_threshold).avg_iou
                  = loc_result.avg_iou

\* C17 (amended): as stated, except that adding an expected box to two empty
\* sequences changes average_iou from the conventional 1.0 to 0.0.
C17_AverageOverMatchedOnlyUnlessBothEmpty ==
    (mpc = "done") =>
        /\ AverageIsMeanOfMatched
        /\ \A k \in 1 .. Len(expected_boxes) :
              (EndsUnmatched(k)
                  /\ ~(Len(expected_boxes) = 1 /\ detected_objects = <<>>)) =>
                  calculate_localization_score(RemoveAt(expected_boxes, k),
                      detected_objects, iou_threshold).avg_iou
                  = loc_result.avg_iou
        /\ (Len(expected_boxes) = 1 /\ detected_objects = <<>>) =>
              /\ loc_result.avg_iou = Zero
              /\ calculate_localization_score(<<>>, detected_objects,
                     iou_threshold).avg_iou = One

C17_Witness ==
    /\ mpc = "done" /\ Len(expected_boxes) = 2
    /\ MatchedRecords = {2}
    /\ FracLess(Zero, loc_result.details[1].iou)
    /\ loc_result.avg_iou = loc_result.details[2].iou
    /\ FracLess(loc_result.avg_iou, One)

\* C18: get_group_size_category maps 0..1 to individual, 2..5 to small,
\* 6..10 to medium, 11..20 to large and every larger count to crowd.
C18_GroupSizePartition ==
    (pc = "done" /\ op = "get_group_size_category" /\ actual_people >= 0) =>
        /\ group_size_category \in Categories
        /\ (group_size_category = "individual") <=> (actual_people \in 0 .. 1)
        /\ (group_size_category = "small") <=> (actual_people \in 2 .. 5)
        /\ (group_size_category = "medium") <=> (actual_people \in 6 .. 10)
        /\ (group_size_category = "large") <=> (actual_people \in 11 .. 20)
        /\ (group_size_category = "crowd") <=> (actual_people > 20)

C18_Witness ==
    /\ pc = "done" /\ op = "get_group_size_category"
    /\ actual_people = 20 /\ group_size_category = "large"

\* the records of the first k expected boxes are those of the call on
\* these k boxes alone: a later box revises nothing
PrefixesKept ==
    \A k \in 1 .. Len(expected_boxes) - 1 :
        detected_objects # <<>> =>
            calculate_localization_score(SubSeq(expected_boxes, 1, k),
                detected_objects, iou_threshold).details
            = SubSeq(loc_result.details, 1, k)

GreedyPremise ==
    /\ Len(expected_boxes) = 2 /\ Len(detected_objects) = 1
    /\ FracGeq(PairIoU(1, 1), iou_threshold)
    /\ FracLess(PairIoU(1, 1), PairIoU(2, 1))

GreedyOutcome ==
    /\ loc_result.details[1].matched
    /\ loc_result.details[1].detected_id = 1
    /\ ~loc_result.details[2].matched
    /\ loc_result.details[2].detected_id = NoneId

\* C19 (as stated): with expected [R1, R2], one detected R3,
\* IoU(R1,R3) >= threshold and IoU(R2,R3) > IoU(R1,R3), R1 is matched to R3
\* and R2 is unmatched; an earlier match is never revised for a later box.
C19_GreedyFirstComeFirstServed ==
    (mpc = "done") =>
        /\ GreedyPremise => GreedyOutcome
        /\ PrefixesKept

\* C19 (amended): the same with IoU(R1,R3) >= threshold and IoU(R1,R3) > 0.
C19_GreedyFirstComeFirstServedPositive ==
    (mpc = "done") =>
        /\ (GreedyPremise /\ FracLess(Zero, PairIoU(1, 1))) => GreedyOutcome
        /\ PrefixesKept

C19_Witness ==
    /\ mpc = "done" /\ GreedyPremise
    /\ PairIoU(1, 1) = [num |-> 1, den |-> 2]
    /\ PairIoU(2, 1) = [num |-> 3, den |-> 4]
    /\ iou_threshold = [num |-> 3, den |-> 10]
    /\ GreedyOutcome

\* C20: with non-empty inputs there is one detail record per expected box,
\* in input order; the record of an unmatched box has detected_id None and
\* the highest IoU among the not-yet-used detected boxes (0.0 if none is left).
C20_OneRecordPerExpectedBox ==
    (mpc = "done" /\ expected_boxes # <<>> /\ detected_objects # <<>>) =>
        /\ Len(loc_result.details) = Len(expected_boxes)
        /\ \A k \in 1 .. Len(loc_result.details) :
              LET r == loc_result.details[k]
              IN  /\ r.expected_id = k
                  /\ r.matched <=> (r.detected_id # NoneId)
                  /\ ~r.matched =>
                        r.iou = (IF Candidates(k) = {} THEN Zero
                                 ELSE HighestIoU(k))

C20_Witness ==
    /\ mpc = "done" /\ Len(loc_result.details) = 2
    /\ loc_result.details[1].matched
    /\ ~loc_result.details[2].matched
    /\ loc_result.details[2].detected_id = NoneId
    /\ FracLess(Zero, loc_result.details[2].iou)
    /\ FracLess(loc_result.details[2].iou, iou_threshold)

\* C21 (as stated): the single-person scripts EP-006 and EP-011 pass only
\* when exactly one person is detected; any count error fails them.
C21_SinglePersonExactCount ==
    (/\ pc = "done" /\ op = "test_ep"
     /\ actual_people = 1 /\ group_size_category = "small"
     /\ detection_threshold \in {85, 95}) =>
        (test_passed <=> detected_people = 1)

\* C22: BVA-012 (12 expected, 'large', threshold 85) has tolerance 2 and
\* passes exactly for 11..14 detected; 10 detected is within tolerance but
\* fails the detection-rate check.
C22_TwelveLargePassesElevenToFourteen ==
    (/\ pc = "done" /\ op = "test_ep"
     /\ actual_people = 12 /\ group_size_category = "large"
     /\ detection_threshold = 85) =>
        /\ metrics.count_tolerance = 2
        /\ test_passed <=> detected_people \in 11 .. 14
        /\ detected_people = 10 =>
              /\ metrics.count_within_tolerance
              /\ failure_reasons = <<RateReason(metrics, 85)>>

C22_Witness ==
    /\ pc = "done" /\ op = "test_ep"
    /\ actual_people = 12 /\ group_size_category = "large"
    /\ detection_threshold = 85 /\ detected_people = 10
    /\ metrics.count_within_tolerance /\ test_passed = FALSE

\* C29: for non-negative counts calculate_metrics gives
\* false_positives + false_negatives = count_error, at most one of the two
\* is non-zero, and detection_rate is 0 (nothing is divided by zero) when
\* actual_people is 0.
C29_MetricsConsistent ==
    (/\ pc = "done" /\ op = "calculate_metrics"
     /\ actual_people >= 0 /\ detected_people >= 0) =>
        /\ metrics.false_positives + metrics.false_negatives
              = metrics.count_error
        /\ metrics.false_positives = 0 \/ metrics.false_negatives = 0
        /\ metrics.detection_rate.den # 0
        /\ actual_people = 0 => metrics.detection_rate = NoRate

C29_Witness ==
    /\ pc = "done" /\ op = "calculate_metrics"
    /\ actual_people = 0 /\ detected_people = 3
    /\ metrics.false_positives = 3 /\ metrics.false_negatives = 0
    /\ metrics.detection_rate = NoRate

C24_MissingImageHandled ==
    (spc = "done" /\ image_files = {}) =>
        /\ script_result.raised = "none"
        /\ script_result.stdout = "FAIL"
        /\ script_result.saved_json
              = [test_id |-> script_id, status |-> "ERROR",
                 error |-> "Error: Image file not found"]
        /\ ~script_result.api_called

\* a failed decision-table result with people expected and none detected
MissedEveryone(data) ==
    /\ data.test_id.prefix = "DT-" /\ data.status = "FAIL"
    /\ IntOr(data.expected_people_count, data.actual_people_in_scene) > 0
    /\ data.detected_people = 0

\* C25 (as stated): analyze_bugs gives severity 'Critical' to every failed
\* DT- test with people expected and none detected, so that critical_bugs > 0
\* and the suitability conclusion is NO.
C25_MissedPeopleAreCritical ==
    (gpc = "done") =>
        \A k \in DOMAIN json_results :
            MissedEveryone(json_results[k]) =>
                /\ \E b \in DOMAIN bugs :
                      /\ bugs[b].test_case = json_results[k].test_id
                      /\ bugs[b].severity = "Critical"
                /\ critical_bugs > 0
                /\ suitable = FALSE

\* the position of a file name in sorted order
Rank(filename) == CHOOSE k \in DOMAIN DirectoryPool : DirectoryPool[k] = filename

\* C26: run_all_tests records exactly one result per discovered test file,
\* in sorted file-name order, also after a timeout or an exception; every
\* status is PASS, FAIL, ERROR or TIMEOUT, so passed + failed = total.
C26_OneResultPerTestFile ==
    /\ Range(test_files) = {f \in dir_listing : is_test_file(f)}
    /\ \A k \in 1 .. Len(test_files) - 1 :
          Rank(test_files[k]) < Rank(test_files[k + 1])
    /\ Len(test_results) <= Len(test_files)
    /\ \A k \in DOMAIN test_results :
          /\ test_results[k].test_id = test_name_of(test_files[k])
          /\ test_results[k].status \in {"PASS", "FAIL", "ERROR", "TIMEOUT"}
    /\ rpc \in {"completed", "reported"} =>
          Len(test_results) = Len(test_files)
    /\ rpc = "reported" =>
          /\ pass_fail.passed + pass_fail.failed = pass_fail.total
          /\ pass_fail.total = Len(test_files)

C26_Witness ==
    /\ rpc = "reported" /\ Len(test_files) = 3
    /\ test_results[1].status = "TIMEOUT"
    /\ test_results[2].output = OSError
    /\ test_results[3].status = "PASS"
    /\ pass_fail.passed = 1 /\ pass_fail.failed = 2

\* C27: in run_test count_passed is true iff detected_count = expected_count,
\* and neither count_passed nor the JSON status depends on the localization
\* result: they are what they are without any expected boxes.
C27_CountVerdictIgnoresLocalization ==
    (dpc = "done" /\ demo_result # None) =>
        LET without == run_test(TRUE, demo_input.expected_count, NoFile,
                                filtered_objects)
        IN  /\ demo_result.count_passed
                  <=> (Len(filtered_objects) = demo_input.expected_count)
            /\ demo_json.test_result.passed = demo_result.count_passed
            /\ demo_json.test_result.status
                  = (IF demo_result.count_passed THEN "PASS" ELSE "FAIL")
            /\ demo_result.count_passed = without.returned.count_passed
            /\ demo_json.test_result = without.json_data.test_result

C27_Witness ==
    /\ dpc = "done" /\ demo_result # None
    /\ demo_result.loc_info # None
    /\ demo_result.loc_info.total = 1 /\ demo_result.loc_info.matched = 0
    /\ demo_result.detected = 1
    /\ demo_result.count_passed /\ demo_json.test_result.status = "PASS"

\* C28: run_test produces a localization result only for a non-empty list of
\* expected boxes: a present loc_info has total >= 1 and 0 <= matched <= total,
\* and without such a list there is no loc_info and no localization_results
\* entry in the JSON data.
C28_LocalizationOnlyWithExpectedBoxes ==
    (dpc = "done" /\ demo_result # None) =>
        LET listed == /\ demo_input.expected_localizations.kind = "entry"
                      /\ demo_input.expected_localizations.localizations # <<>>
        IN  /\ (demo_result.loc_info # None) <=> listed
            /\ ("localization_results" \in DOMAIN demo_json) <=> listed
            /\ listed =>
                  /\ demo_result.loc_info.total >= 1
                  /\ demo_result.loc_info.total
                        = Len(demo_input.expected_localizations.localizations)
                  /\ demo_result.loc_info.matched >= 0
                  /\ demo_result.loc_info.matched <= demo_result.loc_info.total
                  /\ demo_json["localization_results"].expected_boxes >= 1

C28_Witness ==
    /\ dpc = "done" /\ demo_result # None
    /\ demo_input.expected_localizations = Entry(<<>>)
    /\ filtered_objects = <<>>
    /\ demo_result.loc_info = None
    /\ "localization_results" \notin DOMAIN demo_json

\* the IoU of expected box k and detected box j of the repeated call
RetryIoU(k, j) ==
    calculate_iou(retry_args.expected_boxes[k].bounding_box,
                  convert_detected_to_box(retry_args.detected_objects[j]))

\* every matched record names the lowest-indexed detected box among the
\* still unused ones that reach the record's IoU
TiesToLowestIndex(details) ==
    \A k \in DOMAIN details :
        details[k].matched =>
            \A j \in 1 .. Len(retry_args.detected_objects) :
                (/\ j \notin {details[i].detected_id : i \in 1 .. k - 1}
                 /\ RetryIoU(k, j) = details[k].iou)
                    => details[k].detected_id <= j

====
